---- MODULE Spec2Model ----
\* A model of the MPPI parking node (src/src/mppi/mppi_node.py) and of its
\* reference-path geometry and reward (src/src/mppi/infer_env.py).
\*
\* Numbers.  The program computes in floating point; the model computes in
\* fixed point on integers:
\*   lengths      1 unit = 0.1 m          (0.4 m = 4)
\*   angles       1 unit = 1/40 rad       (0.25 rad = 10, pi = 126)
\*   speeds       1 unit = 0.1 m/s
\*   sin, cos     1 unit = 1/1000
\* Python indices are 0-based and the model keeps them: row k of a numpy
\* array is element k+1 of the TLA+ sequence that models it.
EXTENDS Integers, Sequences, FiniteSets, TLC

VARIABLES
    \* ---- MPPI_Node fields (mppi_node.py:63-112) ----
    track,             \* self.track: None or the waypoint table
    infer_env,         \* self.infer_env: None or [waypoints, waypoints_distances]
    mppi,              \* self.mppi: None or [a_opt, env]
    map_received,      \* self.map_received
    grid_info,         \* self.width, height, resolution, origin: None or a record
    occup_pos,         \* self.occup_pos: None or a sequence of points
    end_pose,          \* self.end_pose: unset (None) or <<x, y, yaw>>
    control,           \* self.control: unset (None) or <<steering, speed>>
    stage_cnt,         \* self.stage_cnt: None or a count
    waiting_for_traj,  \* self.waiting_for_traj
    \* ---- what the node has sent and called (observations) ----
    drive,             \* the /drive message the running callback published, or None
    upd,               \* the arguments of its MPPI.update call, or None
    last,              \* the callback that ran and the branch it took; "spin" between callbacks
    n_accepted,        \* trajectories accepted so far
    goal_passed,       \* the goal test has passed since the last accepted trajectory
    \* ---- direct calls of the pure functions ----
    fn,                \* the function called, "" when none
    args,              \* its arguments
    out                \* what it returned

nodeVars == <<track, infer_env, mppi, map_received, grid_info, occup_pos, end_pose,
              control, stage_cnt, waiting_for_traj, drive, upd, last,
              n_accepted, goal_passed>>
fnVars == <<fn, args, out>>
vars == <<nodeVars, fnVars>>

\* Python's None and a set value, in one type.
None == <<>>
Some(v) == <<v>>
Val(o) == o[1]

------------------------------------------------------------------------------
\* Arithmetic

Abs(a) == IF a < 0 THEN -a ELSE a
Min(a, b) == IF a <= b THEN a ELSE b
Max(a, b) == IF a >= b THEN a ELSE b

\* np.clip(a, lo, hi) on finite numbers: minimum(maximum(a, lo), hi)
\* np.clip left out
Clip_none(a, lo, hi) == a

Clip(a, lo, hi) == Min(Max(a, lo), hi)

\* a / b in fixed point, rounded to the nearest unit (b # 0)
FxDiv(a, b) ==
    IF b > 0 THEN (2 * a + b) \div (2 * b) ELSE (2 * (-a) + (-b)) \div (2 * (-b))

\* a * q for a rational q = <<numerator, denominator>>
MulQ(a, q) == FxDiv(a * q[1], q[2])

RECURSIVE SqrtSearch(_, _, _)
SqrtSearch(n, lo, hi) ==
    IF lo >= hi THEN lo
    ELSE LET mid == (lo + hi + 1) \div 2
         IN  IF mid * mid <= n THEN SqrtSearch(n, mid, hi)
             ELSE SqrtSearch(n, lo, mid - 1)

\* np.sqrt, rounded down to the unit
ISqrt(n) == SqrtSearch(n, 0, Min(n, 46340))

\* np.pi in angle units (3.15 rad)
Pi == 126
TwoPi == 2 * Pi

\* np.sin in 1/1000, by range reduction and Bhaskara's rational approximation,
\* exact at the multiples of pi/2
SinHalf(x) == (1000 * 16 * x * (Pi - x)) \div (5 * Pi * Pi - 4 * x * (Pi - x))
Sin(a) ==
    LET r == a % TwoPi
    IN  IF r <= Pi THEN SinHalf(r) ELSE -SinHalf(r - Pi)
Cos(a) == Sin(a + Pi \div 2)

\* sum of f[lo..hi]
RECURSIVE SumTo(_, _, _)
SumTo(f, lo, hi) == IF hi < lo THEN 0 ELSE f[hi] + SumTo(f, lo, hi - 1)

Range(s) == {s[i] : i \in DOMAIN s}

------------------------------------------------------------------------------
\* Floating-point values that may be non-finite (the measured speed, the
\* optimizer's output, the command): <<"fin", n>>, NaN, +Inf, -Inf.

Fin(n) == <<"fin", n>>
NaN == <<"nan", 0>>
PInf == <<"inf", 1>>
NInf == <<"inf", -1>>

\* np.isnan, np.isinf
isnan(a) == a[1] = "nan"
isinf(a) == a[1] = "inf"

\* a + b
F_add(a, b) ==
    IF isnan(a) \/ isnan(b) THEN NaN
    ELSE IF isinf(a) /\ isinf(b) THEN (IF a = b THEN a ELSE NaN)
    ELSE IF isinf(a) THEN a
    ELSE IF isinf(b) THEN b
    ELSE Fin(a[2] + b[2])

\* a * q for a finite rational q = <<numerator, denominator>> > 0
F_mulq(a, q) == IF a[1] = "fin" THEN Fin(MulQ(a[2], q)) ELSE a

\* a > b; every comparison with NaN is false
F_gt(a, b) ==
    IF isnan(a) \/ isnan(b) THEN FALSE
    ELSE IF isinf(a) THEN a = PInf /\ b # PInf
    ELSE IF isinf(b) THEN b = NInf
    ELSE a[2] > b[2]

\* Python's max(a, b) and min(a, b): the first argument unless the second
\* compares greater (less)
py_max(a, b) == IF F_gt(b, a) THEN b ELSE a
py_min(a, b) == IF F_gt(a, b) THEN b ELSE a

\* np.clip(a, lo, hi) for finite lo <= hi: NaN stays NaN
F_clip(a, lo, hi) ==
    IF isnan(a) THEN NaN
    ELSE IF a = PInf THEN Fin(hi)
    ELSE IF a = NInf THEN Fin(lo)
    ELSE Fin(Clip(a[2], lo, hi))

------------------------------------------------------------------------------
\* The configuration the node loads (config_park_slot1.yaml, mppi_node.py:39-43)

\* config.sim_time_step: 0.1 s
config_sim_time_step == <<1, 10>>
\* config.n_steps, the horizon
config_n_steps == 3
\* config.ref_vel: 1 m/s
config_ref_vel == 10
\* config.init_vel: 0.1 m/s
config_init_vel == 1
\* config.norm_params[0, :2]: the scales of steering rate (6 rad/s) and acceleration (10 m/s^2)
config_norm_params == <<240, 100>>

------------------------------------------------------------------------------
\* nearest_point (infer_env.py:223-253)

\* trajectory[1:, :] - trajectory[:-1, :]; segment i in 0..N-1
np_diffs(trajectory) ==
    [i \in 0..(Len(trajectory) - 2) |->
        <<trajectory[i + 2][1] - trajectory[i + 1][1],
          trajectory[i + 2][2] - trajectory[i + 1][2]>>]

np_l2s(trajectory) ==
    [i \in 0..(Len(trajectory) - 2) |->
        np_diffs(trajectory)[i][1] * np_diffs(trajectory)[i][1]
        + np_diffs(trajectory)[i][2] * np_diffs(trajectory)[i][2]]

np_dots(point, trajectory) ==
    [i \in 0..(Len(trajectory) - 2) |->
        (point[1] - trajectory[i + 1][1]) * np_diffs(trajectory)[i][1]
        + (point[2] - trajectory[i + 1][2]) * np_diffs(trajectory)[i][2]]

\* t = dots / (l2s + 1e-8), then t[t < 0] = 0 and t[t > 1] = 1.  t is kept as
\* the exact fraction tnum / l2s.  On the model's grid l2s >= 1 unit^2 for
\* distinct waypoints, so the guard 1e-8 changes t by less than one part in
\* 10^6, below the resolution of every quantity compared here.
np_tnum(point, trajectory) ==
    [i \in 0..(Len(trajectory) - 2) |->
        Clip(np_dots(point, trajectory)[i], 0, np_l2s(trajectory)[i])]

\* projections = trajectory[:-1] + t * diffs, as numerators over l2s[i]
np_projnum(point, trajectory) ==
    [i \in 0..(Len(trajectory) - 2) |->
        <<trajectory[i + 1][1] * np_l2s(trajectory)[i]
            + np_tnum(point, trajectory)[i] * np_diffs(trajectory)[i][1],
          trajectory[i + 1][2] * np_l2s(trajectory)[i]
            + np_tnum(point, trajectory)[i] * np_diffs(trajectory)[i][2]>>]

\* dists[i]^2 = sum((point - projections[i])^2), as a numerator over l2s[i]^2
np_d2num(point, trajectory) ==
    [i \in 0..(Len(trajectory) - 2) |->
        LET l == np_l2s(trajectory)[i]
            p == np_projnum(point, trajectory)[i]
        IN  (point[1] * l - p[1]) * (point[1] * l - p[1])
            + (point[2] * l - p[2]) * (point[2] * l - p[2])]

\* dists[i] <= dists[j], compared exactly (the square root is monotone)
np_le(point, trajectory, i, j) ==
    np_d2num(point, trajectory)[i] * np_l2s(trajectory)[j] * np_l2s(trajectory)[j]
    <= np_d2num(point, trajectory)[j] * np_l2s(trajectory)[i] * np_l2s(trajectory)[i]

\* np.argmin(dists): the first index that attains the minimum
np_argmin(point, trajectory) ==
    LET S == 0..(Len(trajectory) - 2)
    IN  CHOOSE i \in S :
            /\ \A j \in S : np_le(point, trajectory, i, j)
            /\ \A j \in S : j < i => ~np_le(point, trajectory, j, i)

\* nearest_point without the arg-min: segment 0 is always taken.
nearest_point_first(point, trajectory) ==
    LET i == 0
        l == np_l2s(trajectory)[i]
        tn == np_tnum(point, trajectory)[i]
    IN  [p |-> <<FxDiv(np_projnum(point, trajectory)[i][1], l),
                 FxDiv(np_projnum(point, trajectory)[i][2], l)>>,
         pnum |-> np_projnum(point, trajectory)[i],
         dist_from_segment_start |-> ISqrt((tn * tn) \div l),
         dist |-> ISqrt(np_d2num(point, trajectory)[i] \div (l * l)),
         d2num |-> np_d2num(point, trajectory)[i],
         tnum |-> tn,
         tden |-> l,
         min_dist_segment |-> i]

\* The returned tuple (projections[m], dist_from_segment_start, dists[m], t[m], m).
\* p, dist_from_segment_start and dist are in length units; pnum, d2num and
\* tnum carry the same values exactly, over tden, tden^2 and tden.
nearest_point(point, trajectory) ==
    LET i == np_argmin(point, trajectory)
        l == np_l2s(trajectory)[i]
        tn == np_tnum(point, trajectory)[i]
    IN  [p |-> <<FxDiv(np_projnum(point, trajectory)[i][1], l),
                 FxDiv(np_projnum(point, trajectory)[i][2], l)>>,
         pnum |-> np_projnum(point, trajectory)[i],
         dist_from_segment_start |-> ISqrt((tn * tn) \div l),
         dist |-> ISqrt(np_d2num(point, trajectory)[i] \div (l * l)),
         d2num |-> np_d2num(point, trajectory)[i],
         tnum |-> tn,
         tden |-> l,
         min_dist_segment |-> i]

------------------------------------------------------------------------------
\* The waypoint table: rows [s, x, y, yaw, v] (columns 0, 1, 2, 3 and 5 of
\* track.waypoints); row k of the table is waypoints[k + 1].

\* waypoints[:, (1, 2)]
wp_xy(waypoints) == [k \in 1..Len(waypoints) |-> <<waypoints[k].x, waypoints[k].y>>]

\* InferEnv.__init__: np.linalg.norm(waypoints[1:, (1, 2)] - waypoints[:-1, (1, 2)], axis=1)
waypoints_distances_of(waypoints) ==
    [k \in 0..(Len(waypoints) - 2) |->
        ISqrt(np_l2s(wp_xy(waypoints))[k])]

\* InferEnv(track, config, DT): the fields the geometry reads
InferEnv(track_, DT) ==
    [waypoints |-> track_,
     waypoints_distances |-> waypoints_distances_of(track_),
     DT |-> DT]

\* Track.load_traj(trajectory, config): the waypoint table of a received path
\* of poses <<x, y, yaw>>: s is the cumulative arc length, v the speed column.
load_traj(trajectory, speed) ==
    [k \in 1..Len(trajectory) |->
        [s |-> SumTo([m \in 1..Len(trajectory) |->
                        IF m = 1 THEN 0
                        ELSE ISqrt( (trajectory[m][1] - trajectory[m - 1][1])
                                      * (trajectory[m][1] - trajectory[m - 1][1])
                                  + (trajectory[m][2] - trajectory[m - 1][2])
                                      * (trajectory[m][2] - trajectory[m - 1][2]) )],
                     1, k),
         x |-> trajectory[k][1],
         y |-> trajectory[k][2],
         yaw |-> trajectory[k][3],
         v |-> speed]]

------------------------------------------------------------------------------
\* get_reference_trajectory (infer_env.py:256-324)

\* s_relative[0] = dist_from_segment_start; s_relative[1:] = predicted_speeds * DT;
\* s_relative = np.cumsum(s_relative)
fw_s_relative(predicted_speeds, dist_from_segment_start, n_steps, DT) ==
    [i \in 0..n_steps |->
        dist_from_segment_start
        + SumTo([k \in 1..n_steps |-> MulQ(predicted_speeds[k], DT)], 1, i)]

\* np.cumsum(np.roll(waypoints_distances, -idx))
fw_distances_relative(waypoints_distances, idx) ==
    LET N == Cardinality(DOMAIN waypoints_distances)
    IN  [k \in 0..(N - 1) |->
            SumTo([m \in 0..(N - 1) |-> waypoints_distances[(m + idx) % N]], 0, k)]

\* (waypoints_distances_relative <= s).sum()
CountLeq(table, s) == Cardinality({k \in DOMAIN table : table[k] <= s})

\* The index arrays of the forward resampling: what is counted, and what the
\* tables are indexed with after clipping.
fw_index(predicted_speeds, dist_from_segment_start, idx, waypoints, n_steps, waypoints_distances, DT) ==
    LET W == Len(waypoints)
        s_relative == fw_s_relative(predicted_speeds, dist_from_segment_start, n_steps, DT)
        wdr == fw_distances_relative(waypoints_distances, idx)
        counted == [i \in 0..n_steps |-> CountLeq(wdr, s_relative[i])]
    IN  [s_relative |-> s_relative,
         waypoints_distances_relative |-> wdr,
         counted |-> counted,
         index_absolute |-> [i \in 0..n_steps |-> Clip(idx + counted[i], 0, W - 2)],
         index_relative |-> [i \in 0..n_steps |-> Clip(counted[i], 0, W - 2)],
         index_next |->
            [i \in 0..n_steps |-> Clip(Clip(idx + counted[i], 0, W - 2) + 1, 0, W - 2)]]

\* (x + np.pi) % (2 * np.pi) - np.pi
WrapPi(x) == ((x + Pi) % TwoPi) - Pi

\* Row i of the returned array, transposed: waypoints[index_absolute] + t * diffs
\* with t = segment_part / div, the s column reduced by the track length when
\* it exceeds it, the orientation wrapped.
rt_row(waypoints, ia, nx, segment_part, div) ==
    LET a == waypoints[ia + 1]
        b == waypoints[nx + 1]
        last_s == waypoints[Len(waypoints)].s
        interpolated_s == a.s + FxDiv(segment_part * (b.s - a.s), div)
    IN  << a.x + FxDiv(segment_part * (b.x - a.x), div),
           a.y + FxDiv(segment_part * (b.y - a.y), div),
           a.v + FxDiv(segment_part * (b.v - a.v), div),
           WrapPi(a.yaw + FxDiv(segment_part * (b.yaw - a.yaw), div)),
           IF interpolated_s > last_s THEN interpolated_s - last_s ELSE interpolated_s,
           0,
           0 >>

\* The (7, n_steps+1) array returned, as its n_steps+1 columns
\* (x, y, v_ref, yaw_ref, s_abs, 0, 0): element i+1 is column i.
get_reference_trajectory(predicted_speeds, dist_from_segment_start, idx, waypoints, n_steps, waypoints_distances, DT) ==
    LET c == fw_index(predicted_speeds, dist_from_segment_start, idx, waypoints,
                      n_steps, waypoints_distances, DT)
    IN  [j \in 1..(n_steps + 1) |->
            LET i == j - 1
                ia == c.index_absolute[i]
                segment_part ==
                    c.s_relative[i]
                    - (c.waypoints_distances_relative[c.index_relative[i]]
                       - waypoints_distances[ia])
            IN  rt_row(waypoints, ia, c.index_next[i], segment_part,
                       waypoints_distances[ia])]

------------------------------------------------------------------------------
\* get_reference_trajectory_backward (infer_env.py:328-394)

\* delta_s = np.ones(n_steps) * predicted_speeds * DT;
\* s_relative = np.cumsum([0.0] + delta_s); s_relative = np.where(s_relative < 0, s_relative, 0.0)
bw_s_relative(predicted_speeds, n_steps, DT) ==
    [i \in 0..n_steps |->
        LET s == SumTo([k \in 1..n_steps |-> MulQ(predicted_speeds[k], DT)], 1, i)
        IN  IF s < 0 THEN s ELSE 0]

\* seg_inds = np.mod(idx - 1 - np.arange(N), N); -np.cumsum(waypoints_distances[seg_inds])
bw_distances_relative(waypoints_distances, idx) ==
    LET N == Cardinality(DOMAIN waypoints_distances)
    IN  [k \in 0..(N - 1) |->
            -SumTo([m \in 0..(N - 1) |-> waypoints_distances[(idx - 1 - m) % N]], 0, k)]

bw_index(predicted_speeds, idx, waypoints, n_steps, waypoints_distances, DT) ==
    LET W == Len(waypoints)
        s_relative == bw_s_relative(predicted_speeds, n_steps, DT)
        wdr == bw_distances_relative(waypoints_distances, idx)
        counted ==
            [i \in 0..n_steps |->
                Cardinality({k \in DOMAIN wdr : -wdr[k] <= -s_relative[i]})]
    IN  [s_relative |-> s_relative,
         waypoints_distances_relative |-> wdr,
         counted |-> counted,
         index_absolute |-> [i \in 0..n_steps |-> Clip(idx + counted[i], 0, W - 2)],
         index_relative |-> [i \in 0..n_steps |-> Clip(counted[i], 0, W - 2)],
         index_next |->
            [i \in 0..n_steps |-> Clip(Clip(idx + counted[i], 0, W - 2) + 1, 0, W - 2)]]

\* dist_from_segment_start is a parameter the function never reads.
get_reference_trajectory_backward(predicted_speeds, dist_from_segment_start, idx, waypoints, n_steps, waypoints_distances, DT) ==
    LET c == bw_index(predicted_speeds, idx, waypoints, n_steps, waypoints_distances, DT)
    IN  [j \in 1..(n_steps + 1) |->
            LET i == j - 1
                ia == c.index_absolute[i]
                segment_part ==
                    c.s_relative[i]
                    - (c.waypoints_distances_relative[c.index_relative[i]]
                       + waypoints_distances[ia])
            IN  rt_row(waypoints, ia, c.index_next[i], segment_part,
                       -waypoints_distances[ia])]

------------------------------------------------------------------------------
\* InferEnv.get_refernece_traj (infer_env.py:172-220)

\* 5 rad, the large-angle threshold of lines 212-215
large_angle == 200

\* reference[3, :][reference[3, :] - orientation > 5] = np.abs(... - 2 pi), then
\* reference[3, :][reference[3, :] - orientation < -5] = np.abs(... + 2 pi)
calibrate_yaw(yaw, orientation) ==
    LET y1 == IF yaw - orientation > large_angle THEN Abs(yaw - TwoPi) ELSE yaw
    IN  IF y1 - orientation < -large_angle THEN Abs(y1 + TwoPi) ELSE y1

\* state is [x, y, steer, v, yaw]; target_speed is given by every caller.
\* Returns (reference.T, ind).
get_refernece_traj(env, state, target_speed, n_steps, reverse) ==
    CHOOSE result \in
        { LET ind == np_.min_dist_segment
              speeds == [k \in 1..n_steps |-> target_speed]
              reference ==
                  IF ~reverse
                  THEN get_reference_trajectory(speeds, np_.dist_from_segment_start, ind,
                           env.waypoints, n_steps, env.waypoints_distances, env.DT)
                  ELSE get_reference_trajectory_backward(speeds,
                           np_.dist_from_segment_start, ind,
                           env.waypoints, n_steps, env.waypoints_distances, env.DT)
          IN  [reference |->
                  [j \in 1..(n_steps + 1) |->
                      [reference[j] EXCEPT ![4] = calibrate_yaw(reference[j][4], state.yaw)]],
               ind |-> ind]
          : np_ \in {nearest_point(<<state.x, state.y>>, wp_xy(env.waypoints))} } : TRUE

------------------------------------------------------------------------------
\* rclpy.spin (mppi_node.py:477): the executor waits for the next message; no
\* callback is running.
Spinning == [cb |-> "spin", branch |-> "", cmd |-> None, M |-> -1, traj |-> None]

\* MPPI_Node.__init__ (mppi_node.py:37-112), with map_dir = None.  end_pose and
\* control are attributes __init__ does not create.
NodeInit ==
    /\ track = None
    /\ infer_env = None
    /\ mppi = None
    /\ map_received = FALSE
    /\ grid_info = None
    /\ occup_pos = None
    /\ end_pose = None
    /\ control = None
    /\ stage_cnt = None
    /\ waiting_for_traj = FALSE
    /\ drive = None
    /\ upd = None
    /\ last = Spinning
    /\ n_accepted = 0
    /\ goal_passed = FALSE

\* No pure function is called directly.
FnInit ==
    /\ fn = ""
    /\ args = <<>>
    /\ out = <<>>

------------------------------------------------------------------------------
\* Direct calls of nearest_point on every polyline of up to MaxWaypoints grid
\* points with distinct consecutive waypoints, from every grid point.

MaxCoord == 2
MaxWaypoints == 3

GridPoints == (0..MaxCoord) \X (0..1)

Polylines ==
    UNION {{t \in [1..n -> GridPoints] : \A k \in 1..(n - 1) : t[k] # t[k + 1]} :
           n \in 2..MaxWaypoints}

InitNearest ==
    /\ NodeInit
    /\ fn = ""
    /\ out = <<>>
    /\ args \in {[point |-> p, trajectory |-> t] : p \in GridPoints, t \in Polylines}

CallNearestPoint ==
    /\ fn = ""
    /\ fn' = "nearest_point"
    /\ out' = nearest_point(args.point, args.trajectory)
    /\ UNCHANGED <<args, nodeVars>>

NextNearest == CallNearestPoint

SpecNearest == InitNearest /\ [][NextNearest]_vars

\* Samples of segment j of a polyline: trajectory[j] + (u / Samples) * diff
Samples == 4

\* C7: nearest_point returns a point of the segment it names, at the clamped
\* parameter t of the projection formula; no point of any segment of the
\* polyline is nearer to the query point than the returned projection; the
\* distance from the segment start is t * |seg_dir| and the returned distance
\* is the Euclidean distance to the projection (both to the unit); and on a
\* two-point polyline a point that projects on the midpoint has t = 1/2 and
\* the perpendicular offset as its distance.
C7_NearestPoint ==
    fn = "nearest_point" =>
        LET point == args.point
            trajectory == args.trajectory
            m == out.min_dist_segment
            a == trajectory[m + 1]
            b == trajectory[m + 2]
            l2 == (b[1] - a[1]) * (b[1] - a[1]) + (b[2] - a[2]) * (b[2] - a[2])
            dot == (point[1] - a[1]) * (b[1] - a[1]) + (point[2] - a[2]) * (b[2] - a[2])
        IN  /\ m \in 0..(Len(trajectory) - 2)
            /\ out.tden = l2
            /\ out.tnum = (IF dot < 0 THEN 0 ELSE IF dot > l2 THEN l2 ELSE dot)
            /\ out.pnum = <<a[1] * l2 + out.tnum * (b[1] - a[1]),
                            a[2] * l2 + out.tnum * (b[2] - a[2])>>
            /\ out.d2num = (point[1] * l2 - out.pnum[1]) * (point[1] * l2 - out.pnum[1])
                           + (point[2] * l2 - out.pnum[2]) * (point[2] * l2 - out.pnum[2])
            \* no sampled point of any segment is nearer
            /\ \A j \in 1..(Len(trajectory) - 1), u \in 0..Samples :
                LET qx == trajectory[j][1] * Samples + u * (trajectory[j + 1][1] - trajectory[j][1])
                    qy == trajectory[j][2] * Samples + u * (trajectory[j + 1][2] - trajectory[j][2])
                    q2 == (point[1] * Samples - qx) * (point[1] * Samples - qx)
                          + (point[2] * Samples - qy) * (point[2] * Samples - qy)
                IN  out.d2num * Samples * Samples <= q2 * l2 * l2
            \* dist_from_segment_start = t * |seg_dir|, dist = |point - projection|
            /\ out.dist_from_segment_start * out.dist_from_segment_start * l2
                    <= out.tnum * out.tnum
            /\ (out.dist_from_segment_start + 1) * (out.dist_from_segment_start + 1) * l2
                    > out.tnum * out.tnum
            /\ out.dist * out.dist * l2 * l2 <= out.d2num
            /\ (out.dist + 1) * (out.dist + 1) * l2 * l2 > out.d2num
            \* the midpoint of a straight two-point polyline
            /\ (Len(trajectory) = 2 /\ 2 * dot = l2) =>
                /\ 2 * out.tnum = out.tden
                /\ 4 * out.d2num =
                     l2 * l2 * ( (2 * point[1] - a[1] - b[1]) * (2 * point[1] - a[1] - b[1])
                               + (2 * point[2] - a[2] - b[2]) * (2 * point[2] - a[2] - b[2]) )

\* C7 witness: a query off a two-point polyline that projects on its midpoint,
\* and a query whose nearest segment is not the first.
C7_Witness ==
    /\ fn = "nearest_point"
    /\ Len(args.trajectory) = 2
    /\ 2 * out.tnum = out.tden
    /\ out.dist > 0

C7_WitnessLaterSegment ==
    /\ fn = "nearest_point"
    /\ out.min_dist_segment = 1
    /\ out.tnum > 0
    /\ out.tnum < out.tden

------------------------------------------------------------------------------
\* Direct calls of the two resampling functions, as get_refernece_traj makes
\* them: a constant speed profile, the segment index and the distance into
\* the segment, the waypoint table and the distances InferEnv derives from it.

MaxSegLen == 2
MaxSegments == 3
MaxSteps == 3

\* speeds of 1 m/s and 2 m/s, either way, and standstill
Speeds == {-20, -10, 0, 10, 20}

SegLens == UNION {[1..n -> 1..MaxSegLen] : n \in 2..MaxSegments}

\* A path along the x axis with the given segment lengths: "east" runs from
\* the origin with yaw 0; "west" runs back to the origin and turns slowly
\* (0.2 rad per waypoint) from yaw 3.0 rad through the branch cut at pi.
PathOf(shape, lens) ==
    LET total == SumTo(lens, 1, Len(lens))
    IN  [k \in 1..(Len(lens) + 1) |->
            IF shape = "east"
            THEN <<SumTo(lens, 1, k - 1), 0, 0>>
            ELSE <<total - SumTo(lens, 1, k - 1), 0, WrapPi(120 + 8 * (k - 1))>>]

ResampleTables == {load_traj(PathOf(sh, l), 10) : sh \in {"east", "west"}, l \in SegLens}

InitResample ==
    /\ NodeInit
    /\ fn = ""
    /\ out = <<>>
    /\ \E w \in ResampleTables, n \in 1..MaxSteps, v \in Speeds :
       \E idx \in 0..(Len(w) - 2) :
       \E d \in 0..waypoints_distances_of(w)[idx] :
            args = [predicted_speeds |-> [k \in 1..n |-> v],
                    dist_from_segment_start |-> d,
                    idx |-> idx,
                    waypoints |-> w,
                    n_steps |-> n,
                    waypoints_distances |-> waypoints_distances_of(w),
                    DT |-> config_sim_time_step]

\* an index numpy reads from a table of the given size without raising
index_ok(i, size) == i \in 0..(size - 1)

\* the reads of lines 289-304 and 361-374: the rotated cumulative table at
\* index_relative, the distance table at index_absolute (W - 1 entries each) and
\* the waypoint table at index_absolute and at the clipped next index
reads_in_bounds(c, W) ==
    \A i \in DOMAIN c.index_absolute :
        /\ index_ok(c.index_relative[i], W - 1)
        /\ index_ok(c.index_absolute[i], W - 1)
        /\ index_ok(c.index_absolute[i], W)
        /\ index_ok(c.index_next[i], W)

\* what a call leaves when a read raises
IndexError == <<"IndexError">>

CallForward ==
    /\ fn = ""
    /\ fn' = "get_reference_trajectory"
    /\ \E c \in {fw_index(args.predicted_speeds, args.dist_from_segment_start, args.idx,
                          args.waypoints, args.n_steps, args.waypoints_distances, args.DT)} :
        out' = IF reads_in_bounds(c, Len(args.waypoints))
               THEN get_reference_trajectory(args.predicted_speeds,
                        args.dist_from_segment_start, args.idx, args.waypoints,
                        args.n_steps, args.waypoints_distances, args.DT)
               ELSE IndexError
    /\ UNCHANGED <<args, nodeVars>>

CallBackward ==
    /\ fn = ""
    /\ fn' = "get_reference_trajectory_backward"
    /\ \E c \in {bw_index(args.predicted_speeds, args.idx, args.waypoints, args.n_steps,
                          args.waypoints_distances, args.DT)} :
        out' = IF reads_in_bounds(c, Len(args.waypoints))
               THEN get_reference_trajectory_backward(args.predicted_speeds,
                        args.dist_from_segment_start, args.idx, args.waypoints,
                        args.n_steps, args.waypoints_distances, args.DT)
               ELSE IndexError
    /\ UNCHANGED <<args, nodeVars>>

NextResample == CallForward \/ CallBackward

SpecResample == InitResample /\ [][NextResample]_vars

\* the distance travelled per step by the constant speed profile of a call
StepOf(a) == MulQ(a.predicted_speeds[1], a.DT)

\* C8: forward resampling at a constant speed v >= 0 yields, at every step i,
\* the arc length s(idx) + d + i * v * DT modulo the total track length, from
\* every starting segment.
C8_ForwardArcLength ==
    (fn = "get_reference_trajectory" /\ StepOf(args) >= 0) =>
        LET total == args.waypoints[Len(args.waypoints)].s
        IN  \A i \in 0..args.n_steps :
                LET e == args.waypoints[args.idx + 1].s + args.dist_from_segment_start
                         + i * StepOf(args)
                IN  /\ out[i + 1][5] \in 0..total
                    /\ (out[i + 1][5] - e) % total = 0

\* The part of C8 the code does keep: the same, for the steps that fall on a
\* segment other than the last.
C8_InteriorArcLength ==
    (fn = "get_reference_trajectory" /\ StepOf(args) >= 0) =>
        LET c == fw_index(args.predicted_speeds, args.dist_from_segment_start, args.idx,
                          args.waypoints, args.n_steps, args.waypoints_distances, args.DT)
        IN  \A i \in 0..args.n_steps :
                (args.idx + c.counted[i] < Len(args.waypoints) - 2) =>
                    out[i + 1][5] = args.waypoints[args.idx + 1].s
                                    + args.dist_from_segment_start + i * StepOf(args)

\* The path traversed the other way: the waypoints in reverse order, the arc
\* length counted from the other end.
ReversedPath(waypoints) ==
    LET W == Len(waypoints)
    IN  [k \in 1..W |->
            [waypoints[W + 1 - k] EXCEPT !.s = waypoints[W].s - waypoints[W + 1 - k].s]]

\* C9: backward resampling from waypoint j at speed -v gives at every step the
\* position and orientation of forward resampling from the same waypoint at
\* speed v on the reversed path, the travelled arc length negated; s_relative
\* is non-increasing; and the window starts at the projection of the pose,
\* the point at dist_from_segment_start into segment idx.  The mirror is
\* compared on the steps the forward window spends off its last segment.
C9_BackwardMirror ==
    (fn = "get_reference_trajectory_backward" /\ StepOf(args) < 0) =>
        LET W == Len(args.waypoints)
            rev == ReversedPath(args.waypoints)
            j == W - 1 - args.idx
            fspeeds == [k \in 1..args.n_steps |-> -args.predicted_speeds[k]]
            fc == fw_index(fspeeds, 0, j, rev, args.n_steps,
                           waypoints_distances_of(rev), args.DT)
            f == get_reference_trajectory(fspeeds, 0, j, rev, args.n_steps,
                                          waypoints_distances_of(rev), args.DT)
            bc == bw_index(args.predicted_speeds, args.idx, args.waypoints, args.n_steps,
                           args.waypoints_distances, args.DT)
            a == args.waypoints[args.idx + 1]
            b == args.waypoints[args.idx + 2]
            len == args.waypoints_distances[args.idx]
        IN  /\ (args.dist_from_segment_start = 0 /\ args.idx >= 1) =>
                \A i \in 0..args.n_steps :
                    (j + fc.counted[i] < W - 2) =>
                        /\ out[i + 1][1] = f[i + 1][1]
                        /\ out[i + 1][2] = f[i + 1][2]
                        /\ out[i + 1][4] = f[i + 1][4]
                        /\ bc.s_relative[i] = -fc.s_relative[i]
            /\ \A i \in 1..args.n_steps : bc.s_relative[i] <= bc.s_relative[i - 1]
            /\ out[1][1] = a.x + FxDiv(args.dist_from_segment_start * (b.x - a.x), len)
            /\ out[1][2] = a.y + FxDiv(args.dist_from_segment_start * (b.y - a.y), len)

\* a difference of angles wrapped into (-pi, pi]
WrapDiff(x) == IF WrapPi(x) = -Pi THEN Pi ELSE WrapPi(x)

\* C10: in both resamplings the orientation of every window entry is the
\* orientation of the segment's first waypoint plus t times the difference to
\* the second one wrapped into (-pi, pi], so an entry inside a segment lies on
\* the short arc between the two waypoint orientations.
C10_WrappedInterpolation ==
    (fn \in {"get_reference_trajectory", "get_reference_trajectory_backward"}) =>
        LET fw == fn = "get_reference_trajectory"
            c == IF fw
                 THEN fw_index(args.predicted_speeds, args.dist_from_segment_start,
                               args.idx, args.waypoints, args.n_steps,
                               args.waypoints_distances, args.DT)
                 ELSE bw_index(args.predicted_speeds, args.idx, args.waypoints,
                               args.n_steps, args.waypoints_distances, args.DT)
        IN  \A i \in 0..args.n_steps :
                LET ia == c.index_absolute[i]
                    a == args.waypoints[ia + 1]
                    b == args.waypoints[c.index_next[i] + 1]
                    wd == args.waypoints_distances[ia]
                    segment_part ==
                        IF fw
                        THEN c.s_relative[i]
                             - (c.waypoints_distances_relative[c.index_relative[i]] - wd)
                        ELSE c.s_relative[i]
                             - (c.waypoints_distances_relative[c.index_relative[i]] + wd)
                    div == IF fw THEN wd ELSE -wd
                IN  out[i + 1][4] =
                        WrapPi(a.yaw + FxDiv(segment_part * WrapDiff(b.yaw - a.yaw), div))

------------------------------------------------------------------------------
\* MPPI_Node: the thresholds of __init__ (mppi_node.py:103-110)

filtered_thres_forward == 2
filtered_thres_reverse == 1
pos_thres == 4
yaw_thres == 12
max_steering_angle_forward == 20
max_steering_angle_reverse == 10

\* filtering_roi_obstacles' defaults roi_area = (2.0, 2.0), max_obstacles = 200
roi_length == 20
roi_width == 20
max_obstacles_default == 200

------------------------------------------------------------------------------
\* MPPI (mppi_tracking.py): the optimizer object, as far as the node touches it.

\* MPPI(config, infer_env, jrng): a zero mean control sequence over the horizon
MPPI(env) ==
    [a_opt |-> [k \in 1..config_n_steps |-> <<Fin(0), Fin(0)>>], env |-> env]

\* mppi.update(...): the mean sequence is replaced by the re-weighted, shifted
\* one; result is what the sampling produced (every row the action u here).
MPPI_update(m, u) == [m EXCEPT !.a_opt = [k \in 1..config_n_steps |-> u]]

------------------------------------------------------------------------------
\* grid_callback (mppi_node.py:172-193)

\* np.argwhere(grid >= 100)[::5]: the occupied cells <<i, j>> in row-major
\* order, every fifth of them
occupied_indices(data, height, width) ==
    LET cells == [c \in 1..(height * width) |-> <<(c - 1) \div width, (c - 1) % width>>]
        occ == SelectSeq(cells, LAMBDA ij : data[ij[1] * width + ij[2] + 1] >= 100)
    IN  [k \in 1..((Len(occ) + 4) \div 5) |-> occ[5 * (k - 1) + 1]]

\* x = origin.x + j * resolution + resolution / 2, y likewise with i
grid_to_world_batch(indices, origin, resolution) ==
    [k \in 1..Len(indices) |->
        << origin[1] + indices[k][2] * resolution + FxDiv(resolution, 2),
           origin[2] + indices[k][1] * resolution + FxDiv(resolution, 2) >>]

------------------------------------------------------------------------------
\* uniform_resample, filtering_roi_obstacles (mppi_node.py:195-266)

\* np.linspace(0, M - 1, max_obstacles, dtype=int)[k]
linspace_int(M, max_obstacles, k) ==
    IF max_obstacles = 1 THEN 0 ELSE (k * (M - 1)) \div (max_obstacles - 1)

\* extra_idxs is what np.random.choice(M, size=extra_n, replace=True) drew
uniform_resample(obstacles, max_obstacles, extra_idxs) ==
    LET M == Len(obstacles)
    IN  IF M = 0 THEN [k \in 1..max_obstacles |-> <<0, 0>>]
        ELSE IF M >= max_obstacles
        THEN [k \in 1..max_obstacles |-> obstacles[linspace_int(M, max_obstacles, k - 1) + 1]]
        ELSE obstacles \o [k \in 1..(max_obstacles - M) |-> obstacles[extra_idxs[k] + 1]]

\* the mask of lines 245-261: the points inside the rectangle ahead of the car
in_roi(state, pt) ==
    LET dx == pt[1] - state.x
        dy == pt[2] - state.y
        x_local == Cos(-state.yaw) * dx - Sin(-state.yaw) * dy
        y_local == Sin(-state.yaw) * dx + Cos(-state.yaw) * dy
    IN  /\ x_local >= 0
        /\ x_local <= roi_length * 1000
        /\ 2 * y_local >= -roi_width * 1000
        /\ 2 * y_local <= roi_width * 1000

\* obstacle_world_coords[mask]
roi_points(state, obstacle_world_coords) ==
    SelectSeq(obstacle_world_coords, LAMBDA pt : in_roi(state, pt))

filtering_roi_obstacles(state, obstacle_world_coords, extra_idxs) ==
    uniform_resample(roi_points(state, obstacle_world_coords), max_obstacles_default,
                     extra_idxs)

------------------------------------------------------------------------------
\* is_goal_in_front, check_is_traj_done (mppi_node.py:222-231, 329-351)

\* heading @ to_goal_norm > 0; to_goal_norm is to_goal over a positive number
is_goal_in_front(state, end_pos) ==
    Cos(state.yaw) * (end_pos[1] - state.x) + Sin(state.yaw) * (end_pos[2] - state.y) > 0

\* utils.wrap_to_2pi: into [0, 2 pi)
wrap_to_2pi(a) == a % TwoPi
\* utils.angle_diff: the signed smallest difference
angle_diff(a, b) == WrapPi(a - b)

\* pos_error < pos_thres and yaw_error < yaw_thres (the norm compared squared)
check_is_traj_done(state, end_pose_) ==
    LET yaw_error == Abs(angle_diff(wrap_to_2pi(state.yaw), end_pose_[3]))
        pos_error2 == (state.x - end_pose_[1]) * (state.x - end_pose_[1])
                      + (state.y - end_pose_[2]) * (state.y - end_pose_[2])
    IN  pos_error2 < pos_thres * pos_thres /\ yaw_error < yaw_thres

------------------------------------------------------------------------------
\* pose_callback, the pieces (mppi_node.py:353-471)

\* np.tile(end_pose, (rows, 1))
tile(row, rows) == [k \in 1..rows |-> row]

\* lines 423-429: the window is replaced by the goal pose when enough of it
\* is within filtered_thres of the goal
filter_reference(reference_traj, end_pose_, n_steps, filtered_thres) ==
    LET within(r) == (r[1] - end_pose_[1]) * (r[1] - end_pose_[1])
                     + (r[2] - end_pose_[2]) * (r[2] - end_pose_[2])
                     < filtered_thres * filtered_thres
        num_within == Cardinality({k \in DOMAIN reference_traj : within(reference_traj[k])})
        first == IF num_within >= n_steps \div 2 THEN tile(end_pose_, n_steps)
                 ELSE reference_traj
    IN  IF \E k \in DOMAIN reference_traj : within(reference_traj[k])
        THEN tile(end_pose_, n_steps + 1)
        ELSE first

\* line 453, without the test for NaN and Inf
command_is_bad_never(c) == FALSE

\* line 453: np.isnan(self.control).any() or np.isinf(self.control).any()
command_is_bad(c) == isnan(c[1]) \/ isnan(c[2]) \/ isinf(c[1]) \/ isinf(c[2])

\* lines 458-464, with the forward steering bound taken for every mode
drive_msg_one_bound(control_, max_steering_angle) ==
    [steering_angle |-> F_clip(control_[1], -max_steering_angle_forward,
                               max_steering_angle_forward),
     speed |-> F_clip(control_[2], -config_ref_vel, config_ref_vel)]

\* lines 458-464: the message published on /drive
drive_msg(control_, max_steering_angle) ==
    [steering_angle |-> F_clip(control_[1], -max_steering_angle, max_steering_angle),
     speed |-> F_clip(control_[2], -config_ref_vel, config_ref_vel)]

\* line 394, with the optimizer kept
mppi_when_done_kept == mppi

\* line 394: self.mppi = None
mppi_when_done == None

\* line 134, with the flag left as it was
waiting_after_traj_kept == waiting_for_traj

\* line 134: self.waiting_for_traj = False
waiting_after_traj == FALSE

\* lines 122-125, with the increment of line 125 left out
next_stage_cnt_kept == IF stage_cnt = None THEN 0 ELSE Val(stage_cnt)

\* lines 122-125: stage_cnt becomes 0 when unset, else increases by one
next_stage_cnt == IF stage_cnt = None THEN 0 ELSE Val(stage_cnt) + 1

\* line 115, with every trajectory accepted
traj_is_accepted_always == TRUE

\* line 115: a trajectory is taken only while track, infer_env or mppi is None
traj_is_accepted == track = None \/ infer_env = None \/ mppi = None

------------------------------------------------------------------------------
\* InferEnv.reward_fn_xy (infer_env.py:92-120).  Rewards are in 1/1000.
\* state is the predicted trajectory, n_steps rows [x, y, steer, v, yaw];
\* reference is the window, whose rows 1.. are compared with it.

\* per-stage weights xy_cost, yaw_cost, obs_cost of the configuration
config_xy_cost == <<2, 1, 3>>
config_yaw_cost == <<1, 2, 1>>
config_obs_cost == <<1, 1, 2>>

\* reference[1:, col] as an angle; a column past the row's end reads the last
\* column (jax clamps out-of-bounds indices); column 4 of a full row is s_abs,
\* a length, read here as radians.
ref_angle(row, col) ==
    IF col + 1 > Len(row) THEN row[Len(row)]
    ELSE IF col = 4 THEN 4 * row[5]
    ELSE row[col + 1]

\* lines 98: -||reference[1:, :2] - state[:, :2]||_1
xy_cost_term(state, reference) ==
    [k \in 1..Len(state) |->
        -100 * (Abs(reference[k + 1][1] - state[k].x) + Abs(reference[k + 1][2] - state[k].y))]

\* lines 105-106: sin against column 3, cos against column 4
yaw_cost_term(state, reference) ==
    [k \in 1..Len(state) |->
        - Abs(Sin(ref_angle(reference[k + 1], 3)) - Sin(state[k].yaw))
        - Abs(Cos(ref_angle(reference[k + 1], 4)) - Cos(state[k].yaw))]

\* lines 110-114: d2 is the least squared distance to an obstacle, and the term
\* is -1 / (d2**2 + 1e-4)
obs_cost_term(state, obstacles) ==
    [k \in 1..Len(state) |->
        LET sqd(m) == (state[k].x - obstacles[m][1]) * (state[k].x - obstacles[m][1])
                      + (state[k].y - obstacles[m][2]) * (state[k].y - obstacles[m][2])
            d2 == CHOOSE d \in {sqd(m) : m \in DOMAIN obstacles} :
                      \A m \in DOMAIN obstacles : d <= sqd(m)
        IN  -(10000000 \div (d2 * d2 + 1))]

\* obstacles is None or Some(points); stage_idx counts from 0
reward_fn_xy(state, reference, stage_idx, obstacles) ==
    [k \in 1..Len(state) |->
        xy_cost_term(state, reference)[k] * config_xy_cost[stage_idx + 1]
        + yaw_cost_term(state, reference)[k] * config_yaw_cost[stage_idx + 1]
        + (IF obstacles # None
           THEN obs_cost_term(state, Val(obstacles))[k] * config_obs_cost[stage_idx + 1]
           ELSE 0)]

------------------------------------------------------------------------------
\* The messages the node receives, and what the optimizer's sampling and
\* np.random.choice may produce.

MaxTraj == 2
MaxSteer == 24

\* a 3 x 2 grid of 0.2 m cells: free, and fully occupied
GridMsgs ==
    {[width |-> 3, height |-> 2, resolution |-> 2, origin |-> <<1, -1>>, data |-> d] :
        d \in {[c \in 1..6 |-> 0], [c \in 1..6 |-> 100]}}

\* a path east to a slot at x = 1.2 m, and one driven in reverse to x = 0.8 m
TrajMsgs ==
    {[traj |-> <<<<0, 0, 0>>, <<6, 0, 0>>, <<11, 0, 0>>, <<12, 0, 0>>>>,
      end_pose |-> <<12, 0, 0>>],
     [traj |-> <<<<12, 0, 0>>, <<10, 0, 0>>, <<8, 0, 0>>>>,
      end_pose |-> <<8, 0, 0>>]}

\* odometry: position, yaw, and a measured speed that may be non-finite
PoseMsgs ==
    {[x |-> x, y |-> 0, theta |-> th, vx |-> v] :
        x \in {0, 8, 10}, th \in {0, Pi}, v \in {Fin(8), Fin(-8), NaN, PInf}}

\* the first action of the mean sequence after an update, normalised
UpdateOutcomes == {<<Fin(1), Fin(1)>>, <<Fin(-1), Fin(-1)>>, <<NaN, Fin(0)>>}

\* draws of np.random.choice(M, size=n): here every extra is the same point
ExtraDraws(M, n) == {[k \in 1..n |-> e] : e \in 0..Max(M - 1, 0)}

------------------------------------------------------------------------------
\* The callbacks.  The executor runs one callback at a time.

grid_callback ==
    /\ last.cb = "spin"
    /\ \E grid_msg \in GridMsgs :
        LET info == IF grid_info = None
                    THEN [width |-> grid_msg.width, height |-> grid_msg.height,
                          resolution |-> grid_msg.resolution, origin |-> grid_msg.origin]
                    ELSE Val(grid_info)
        IN  /\ grid_info' = Some(info)
            /\ occup_pos' = Some(grid_to_world_batch(
                                occupied_indices(grid_msg.data, info.height, info.width),
                                info.origin, info.resolution))
    /\ map_received' = TRUE
    /\ last' = [cb |-> "grid", branch |-> "", cmd |-> None, M |-> -1, traj |-> None]
    /\ UNCHANGED <<track, infer_env, mppi, end_pose, control, stage_cnt, waiting_for_traj,
                   drive, upd, n_accepted, goal_passed, fnVars>>

traj_callback ==
    /\ last.cb = "spin"
    /\ \E traj_msg \in TrajMsgs, u \in UpdateOutcomes :
        IF traj_is_accepted
        THEN \E new_track \in {load_traj(traj_msg.traj, config_ref_vel)},
                new_cnt \in {next_stage_cnt},
                state_c_0 \in {[x |-> 0, y |-> 0, steer |-> Fin(0), v |-> Fin(0),
                                yaw |-> 0]} :
             \E new_env \in {InferEnv(new_track, config_sim_time_step)} :
             \E r \in {get_refernece_traj(new_env, state_c_0, config_ref_vel,
                                          config_n_steps, FALSE)} :
                 /\ n_accepted < MaxTraj
                 /\ end_pose' = Some(traj_msg.end_pose)
                 /\ stage_cnt' = Some(new_cnt)
                 /\ track' = Some(new_track)
                 /\ infer_env' = Some(new_env)
                 /\ control' = Some(<<Fin(0), Fin(0)>>)
                 /\ upd' = Some([state |-> state_c_0, reference_traj |-> r.reference,
                                 stage |-> new_cnt, obstacles |-> None, by |-> "traj"])
                 /\ mppi' = Some(MPPI_update(MPPI(new_env), u))
                 /\ waiting_for_traj' = waiting_after_traj
                 /\ n_accepted' = n_accepted + 1
                 /\ goal_passed' = FALSE
                 /\ last' = [cb |-> "traj", branch |-> "accepted", cmd |-> None, M |-> -1,
                             traj |-> Some(traj_msg)]
        ELSE /\ last' = [cb |-> "traj", branch |-> "ignored", cmd |-> None, M |-> -1,
                         traj |-> Some(traj_msg)]
             /\ UNCHANGED <<track, infer_env, mppi, end_pose, control, stage_cnt,
                            waiting_for_traj, upd, n_accepted, goal_passed>>
    /\ UNCHANGED <<map_received, grid_info, occup_pos, drive, fnVars>>

\* lines 399-471 of pose_callback: the path is not yet done
pose_active(pose_msg, state_c_0) ==
    \E in_front \in {is_goal_in_front(state_c_0, Val(end_pose))},
       roi \in {roi_points(state_c_0, Val(occup_pos))},
       curr_speed \in {pose_msg.vx} :
    \E state_used \in {IF in_front THEN state_c_0
                       ELSE [state_c_0 EXCEPT
                               !.v = py_min(pose_msg.vx, Fin(-config_init_vel))]},
       find_waypoint_vel \in
           {IF in_front
            THEN F_clip(py_max(Fin(config_ref_vel), pose_msg.vx), 0, config_ref_vel)
            ELSE F_clip(py_min(Fin(-config_ref_vel), pose_msg.vx), -config_ref_vel, 0)},
       filtered_thres \in {IF in_front THEN filtered_thres_forward
                           ELSE filtered_thres_reverse},
       max_steering_angle \in {IF in_front THEN max_steering_angle_forward
                               ELSE max_steering_angle_reverse} :
    \E r \in {get_refernece_traj(Val(infer_env), state_used, find_waypoint_vel[2],
                                 config_n_steps, ~in_front)} :
    \E reference_traj \in {filter_reference(r.reference, Val(end_pose),
                                            config_n_steps, filtered_thres)},
       u \in UpdateOutcomes,
       extra_idxs \in ExtraDraws(Len(roi), max_obstacles_default - Len(roi)) :
    \E filtered_obstacles \in {filtering_roi_obstacles(state_c_0, Val(occup_pos),
                                                        extra_idxs)},
       updated \in {MPPI_update(Val(mppi), u)} :
    \E mppi_control \in
           {<< F_mulq(updated.a_opt[1][1], <<config_norm_params[1], 2>>),
               F_mulq(updated.a_opt[1][2], <<config_norm_params[2], 2>>) >>} :
    \E cmd \in {<< F_add(F_mulq(mppi_control[1], config_sim_time_step), Val(control)[1]),
                   F_add(F_mulq(mppi_control[2], config_sim_time_step), curr_speed) >>} :
    \E bad \in {command_is_bad(cmd)} :
    \E new_control \in {IF bad THEN <<Fin(0), Fin(0)>> ELSE cmd} :
        /\ (cmd[1][1] = "fin") => Abs(cmd[1][2]) <= MaxSteer
        /\ upd' = Some([state |-> state_used, reference_traj |-> reference_traj,
                        stage |-> Val(stage_cnt),
                        obstacles |-> Some(filtered_obstacles), by |-> "pose"])
        /\ mppi' = Some(IF bad
                        THEN [updated EXCEPT !.a_opt =
                                [k \in DOMAIN updated.a_opt |-> <<Fin(0), Fin(0)>>]]
                        ELSE updated)
        /\ control' = Some(new_control)
        /\ drive' = Some(drive_msg(new_control, max_steering_angle))
        /\ last' = [cb |-> "pose", branch |-> IF in_front THEN "forward" ELSE "reverse",
                    cmd |-> Some(cmd), M |-> Len(roi), traj |-> None]
        /\ UNCHANGED <<waiting_for_traj, goal_passed>>

pose_callback ==
    /\ last.cb = "spin"
    /\ \E pose_msg \in PoseMsgs :
        IF ~map_received
        THEN /\ last' = [cb |-> "pose", branch |-> "no_map", cmd |-> None, M |-> -1, traj |-> None]
             /\ UNCHANGED <<mppi, control, waiting_for_traj, drive, upd, goal_passed>>
        ELSE IF mppi = None
        THEN /\ last' = [cb |-> "pose", branch |-> "no_traj", cmd |-> None, M |-> -1, traj |-> None]
             /\ UNCHANGED <<mppi, control, waiting_for_traj, drive, upd, goal_passed>>
        ELSE \E state_c_0 \in {[x |-> pose_msg.x, y |-> pose_msg.y,
                                steer |-> Val(control)[1],
                                v |-> py_max(pose_msg.vx, Fin(config_init_vel)),
                                yaw |-> pose_msg.theta]} :
            IF check_is_traj_done(state_c_0, Val(end_pose))
            THEN /\ mppi' = mppi_when_done
                 /\ control' = Some(<<Fin(0), Fin(0)>>)
                 /\ drive' = Some(drive_msg(<<Fin(0), Fin(0)>>, 0))
                 /\ waiting_for_traj' = (IF mppi_when_done = None THEN TRUE
                                         ELSE waiting_for_traj)
                 /\ goal_passed' = TRUE
                 /\ last' = [cb |-> "pose", branch |-> "done", cmd |-> None, M |-> -1, traj |-> None]
                 /\ UNCHANGED upd
            ELSE pose_active(pose_msg, state_c_0)
    /\ UNCHANGED <<track, infer_env, map_received, grid_info, occup_pos, end_pose,
                   stage_cnt, n_accepted, fnVars>>

\* the callback returns to rclpy.spin; its message and call are in the past
spin ==
    /\ last.cb # "spin"
    /\ last' = Spinning
    /\ drive' = None
    /\ upd' = None
    /\ UNCHANGED <<track, infer_env, mppi, map_received, grid_info, occup_pos, end_pose,
                   control, stage_cnt, waiting_for_traj, n_accepted, goal_passed, fnVars>>

Next == grid_callback \/ traj_callback \/ pose_callback \/ spin

Init == NodeInit /\ FnInit

Spec == Init /\ [][Next]_vars

------------------------------------------------------------------------------
\* The command published by a pose callback

\* C1: in every pose callback that publishes a drive command the published
\* steering angle and speed are finite; when the computed command holds NaN or
\* Inf, steering 0 and speed 0 are published and the stored mean control
\* sequence is zeros.
C1_FiniteCommand ==
    (last.cb = "pose" /\ drive # None) =>
        /\ Val(drive).steering_angle[1] = "fin"
        /\ Val(drive).speed[1] = "fin"
        /\ (last.cmd # None /\ \E i \in 1..2 : Val(last.cmd)[i][1] # "fin") =>
            /\ Val(drive).steering_angle = Fin(0)
            /\ Val(drive).speed = Fin(0)
            /\ \A k \in DOMAIN Val(mppi).a_opt : Val(mppi).a_opt[k] = <<Fin(0), Fin(0)>>

\* a cycle whose computed steering is NaN and whose measured speed is finite
C1_Witness ==
    /\ last.cb = "pose"
    /\ last.cmd # None
    /\ isnan(Val(last.cmd)[1])
    /\ Val(last.cmd)[2][1] = "fin"
    /\ drive = Some([steering_angle |-> Fin(0), speed |-> Fin(0)])

\* C2: every published drive command is clipped: |steering| <= 0.5 rad when the
\* goal is in front, |steering| <= 0.25 rad when it is behind, steering = 0 on
\* the cycle the goal is reached, and |speed| <= ref_vel in every mode.
C2_ClippedCommand ==
    (last.cb = "pose" /\ drive # None) =>
        /\ Val(drive).steering_angle[1] = "fin" =>
            /\ last.branch = "forward" => Abs(Val(drive).steering_angle[2]) <= 20
            /\ last.branch = "reverse" => Abs(Val(drive).steering_angle[2]) <= 10
            /\ last.branch = "done" => Val(drive).steering_angle[2] = 0
        /\ Val(drive).speed[1] = "fin" => Abs(Val(drive).speed[2]) <= config_ref_vel

\* a reverse cycle whose computed steering is beyond 0.25 rad
C2_Witness ==
    /\ last.cb = "pose"
    /\ last.branch = "reverse"
    /\ last.cmd # None
    /\ Val(last.cmd)[1][1] = "fin"
    /\ Abs(Val(last.cmd)[1][2]) > 10
    /\ Abs(Val(drive).steering_angle[2]) = 10

\* a forward cycle whose computed steering is beyond 0.5 rad
C2_WitnessForward ==
    /\ last.cb = "pose"
    /\ last.branch = "forward"
    /\ last.cmd # None
    /\ Val(last.cmd)[1][1] = "fin"
    /\ Abs(Val(last.cmd)[1][2]) > 20
    /\ Abs(Val(drive).steering_angle[2]) = 20

------------------------------------------------------------------------------
\* Idle and Active

\* C3: the planner is Idle (mppi is None) exactly when no trajectory has been
\* accepted yet or the goal test has passed since the last accepted trajectory;
\* otherwise it is Active and holds a mean control sequence.
C3_IdleExactly ==
    /\ (mppi = None) <=> (n_accepted = 0 \/ goal_passed)
    /\ mppi # None => Len(Val(mppi).a_opt) = config_n_steps

\* the planner is Idle again after a path was accepted and its goal reached
C3_Witness ==
    /\ mppi = None
    /\ n_accepted > 0
    /\ goal_passed
    /\ last.cb = "pose"
    /\ last.branch = "done"

\* C4 as stated: whenever a path arrives, in any planner state, the waypoint
\* table and its distance table are those of the new path and the optimizer is
\* primed with it.
C4_ReplacedInAnyState ==
    (last.cb = "traj") =>
        /\ track = Some(load_traj(Val(last.traj).traj, config_ref_vel))
        /\ Val(infer_env).waypoints_distances
              = waypoints_distances_of(load_traj(Val(last.traj).traj, config_ref_vel))
        /\ mppi # None
        /\ upd # None

\* C4, amended: a path that arrives while the planner is Idle replaces the
\* waypoint table and its distance table as a whole and primes a fresh
\* optimizer; a path that arrives while the planner is Active is ignored and
\* leaves the tables, the goal and the optimizer as they were.
C4_ReplacedOnlyWhenIdle ==
    [][ (last.cb = "spin" /\ last'.cb = "traj") =>
            IF mppi = None
            THEN /\ track' = Some(load_traj(Val(last'.traj).traj, config_ref_vel))
                 /\ Val(infer_env').waypoints = Val(track')
                 /\ Val(infer_env').waypoints_distances
                       = waypoints_distances_of(Val(track'))
                 /\ end_pose' = Some(Val(last'.traj).end_pose)
                 /\ mppi' # None
                 /\ Val(mppi').env = Val(infer_env')
                 /\ Val(upd').by = "traj"
            ELSE UNCHANGED <<track, infer_env, end_pose, mppi, stage_cnt, control>>
      ]_vars

\* a path other than the one being followed arrived while Active
C4_Witness ==
    /\ last.cb = "traj"
    /\ last.branch = "ignored"
    /\ mppi # None
    /\ track # Some(load_traj(Val(last.traj).traj, config_ref_vel))

------------------------------------------------------------------------------
\* What the optimizer's update is handed

\* C5: every reference window handed to the update in a pose callback has
\* n_steps+1 rows of the 7 fields (x, y, v_ref, yaw_ref, s_abs, 0, 0), also when
\* the window is replaced by the goal pose.
C5_WindowShape ==
    (upd # None /\ Val(upd).by = "pose") =>
        /\ Len(Val(upd).reference_traj) = config_n_steps + 1
        /\ \A k \in DOMAIN Val(upd).reference_traj :
            /\ Len(Val(upd).reference_traj[k]) = 7
            /\ Val(upd).reference_traj[k][6] = 0
            /\ Val(upd).reference_traj[k][7] = 0

\* predicted trajectories from a state: standing still, and creeping along x
Rollouts(state) ==
    {[k \in 1..config_n_steps |-> [state EXCEPT !.x = state.x + d * k]] : d \in {0, 1}}

\* C6: when no occupied cell lies in the region of interest, the obstacle term
\* adds nothing to the per-step reward of any predicted trajectory: the reward
\* is the one computed without obstacles.
C6_NoObstaclesNoTerm ==
    (upd # None /\ Val(upd).by = "pose" /\ last.M = 0) =>
        \A rollout \in Rollouts(Val(upd).state) :
            reward_fn_xy(rollout, Val(upd).reference_traj, Val(upd).stage,
                         Val(upd).obstacles)
              = reward_fn_xy(rollout, Val(upd).reference_traj, Val(upd).stage, None)

------------------------------------------------------------------------------
\* Direct calls of InferEnv.get_refernece_traj, as the callbacks make them:
\* a pose near the path with any heading, a target speed, forward or reverse.

\* headings of 0, +-2.25 rad and +-3.0 rad
Headings == {-120, -90, 0, 90, 120}

InitReference ==
    /\ NodeInit
    /\ fn = ""
    /\ out = <<>>
    /\ \E w \in ResampleTables, n \in 1..MaxSteps, x \in 0..MaxSegLen, yaw \in Headings,
          reverse \in BOOLEAN :
            args = [env |-> InferEnv(w, config_sim_time_step),
                    state |-> [x |-> x, y |-> 0, steer |-> Fin(0), v |-> Fin(config_init_vel),
                               yaw |-> yaw],
                    target_speed |-> IF reverse THEN -config_ref_vel ELSE config_ref_vel,
                    n_steps |-> n,
                    reverse |-> reverse]

CallGetReference ==
    /\ fn = ""
    /\ fn' = "get_refernece_traj"
    /\ out' = get_refernece_traj(args.env, args.state, args.target_speed, args.n_steps,
                                 args.reverse)
    /\ UNCHANGED <<args, nodeVars>>

NextReference == CallGetReference

SpecReference == InitReference /\ [][NextReference]_vars

\* the window of a call before lines 210-215 touch it
RawWindow(a) ==
    CHOOSE r \in
        { IF a.reverse
          THEN get_reference_trajectory_backward([k \in 1..a.n_steps |-> a.target_speed],
                   np_.dist_from_segment_start, np_.min_dist_segment, a.env.waypoints,
                   a.n_steps, a.env.waypoints_distances, a.env.DT)
          ELSE get_reference_trajectory([k \in 1..a.n_steps |-> a.target_speed],
                   np_.dist_from_segment_start, np_.min_dist_segment, a.env.waypoints,
                   a.n_steps, a.env.waypoints_distances, a.env.DT)
          : np_ \in {nearest_point(<<a.state.x, a.state.y>>, wp_xy(a.env.waypoints))} } : TRUE

\* C11: after get_refernece_traj every orientation of the window that was more
\* than the large-angle threshold above the pose's yaw is its value minus 2 pi,
\* every one more than the threshold below is its value plus 2 pi, and the
\* others are unchanged.
C11_CalibratedYaw ==
    (fn = "get_refernece_traj") =>
        \A raw \in {RawWindow(args)} :
            \A j \in DOMAIN raw :
                out.reference[j][4] =
                    IF raw[j][4] - args.state.yaw > large_angle THEN raw[j][4] - TwoPi
                    ELSE IF raw[j][4] - args.state.yaw < -large_angle THEN raw[j][4] + TwoPi
                    ELSE raw[j][4]

\* what does hold: orientations within the threshold, and those below it, are
\* as C11 says
C11_WithinOrBelow ==
    (fn = "get_refernece_traj") =>
        \A raw \in {RawWindow(args)} :
            \A j \in DOMAIN raw :
                raw[j][4] - args.state.yaw <= large_angle =>
                    out.reference[j][4] =
                        IF raw[j][4] - args.state.yaw < -large_angle THEN raw[j][4] + TwoPi
                        ELSE raw[j][4]

------------------------------------------------------------------------------
\* Index clipping in the two resampling functions (SpecResample)

\* the index record of the call that was made
IndexRecord ==
    IF fn = "get_reference_trajectory"
    THEN fw_index(args.predicted_speeds, args.dist_from_segment_start, args.idx,
                  args.waypoints, args.n_steps, args.waypoints_distances, args.DT)
    ELSE bw_index(args.predicted_speeds, args.idx, args.waypoints, args.n_steps,
                  args.waypoints_distances, args.DT)

\* C12: from every starting segment 0..W-2, for every speed profile and every
\* n_steps, forward and backward resampling read the waypoint table, the
\* distance table and the rotated cumulative table only inside their bounds, so
\* every call returns its n_steps+1 rows.
C12_IndicesInBounds ==
    (fn # "") =>
        /\ Len(out) = args.n_steps + 1
        /\ \A row \in Range(out) : Len(row) = 7
        /\ \A c \in {IndexRecord} :
            \A i \in 0..args.n_steps :
                /\ c.index_relative[i] \in 0..(Len(args.waypoints) - 2)
                /\ c.index_absolute[i] \in 0..(Len(args.waypoints) - 2)
                /\ c.index_next[i] \in 0..(Len(args.waypoints) - 1)

\* a forward call whose count of passed segments runs past the table from
\* the last segment: the clipping acted
C12_Witness ==
    /\ fn = "get_reference_trajectory"
    /\ args.idx = Len(args.waypoints) - 2
    /\ \E c \in {IndexRecord} :
        \E i \in 0..args.n_steps :
            /\ args.idx + c.counted[i] > Len(args.waypoints) - 1
            /\ c.index_absolute[i] = Len(args.waypoints) - 2
    /\ Len(out) = args.n_steps + 1

\* the same for a backward call
C12_WitnessBackward ==
    /\ fn = "get_reference_trajectory_backward"
    /\ \E c \in {IndexRecord} :
        \E i \in 0..args.n_steps :
            /\ args.idx + c.counted[i] > Len(args.waypoints) - 1
            /\ c.index_absolute[i] = Len(args.waypoints) - 2
    /\ Len(out) = args.n_steps + 1

------------------------------------------------------------------------------
\* Direct calls of InferEnv.reward_fn_xy, as the optimizer's rollout makes
\* them: a predicted trajectory, a reference window of one more row, the
\* stage index and the obstacle set or None.

\* windows resampled forward at 1 m/s from the start of two-segment paths
RewardWindows(n) ==
    {get_reference_trajectory([k \in 1..n |-> 10], 0, 0, w, n, waypoints_distances_of(w),
                              config_sim_time_step) :
        w \in {load_traj(PathOf(sh, l), 10) : sh \in {"east", "west"},
                                             l \in [1..2 -> 1..MaxSegLen]}}

\* predicted trajectories: standing still or creeping along x, at one heading
RewardRollouts(n) ==
    {[k \in 1..n |-> [x |-> x + d * k, y |-> 0, steer |-> Fin(0), v |-> Fin(10), yaw |-> yaw]] :
        x \in {0, 1}, d \in {0, 1}, yaw \in {0, 90, -120}}

ObstacleSets == {None, Some(<<<<0, 0>>>>), Some(<<<<1, 0>>>>), Some(<<<<2, 1>>, <<3, 0>>>>)}

InitReward ==
    /\ NodeInit
    /\ fn = ""
    /\ out = <<>>
    /\ \E n \in {1, MaxSteps} :
       \E reference \in RewardWindows(n), state \in RewardRollouts(n),
          stage_idx \in 0..2, obstacles \in ObstacleSets :
            args = [state |-> state, reference |-> reference, stage_idx |-> stage_idx,
                    obstacles |-> obstacles]

CallReward ==
    /\ fn = ""
    /\ fn' = "reward_fn_xy"
    /\ out' = reward_fn_xy(args.state, args.reference, args.stage_idx, args.obstacles)
    /\ UNCHANGED <<args, nodeVars>>

NextReward == CallReward

SpecReward == InitReward /\ [][NextReward]_vars

\* C13: at every predicted step the heading term of the reward is
\* -(|sin(ref_yaw) - sin(pred_yaw)| + |cos(ref_yaw) - cos(pred_yaw)|), sine and
\* cosine both of the yaw_ref of the reference row one further, times the
\* stage's heading weight.  Stated on calls without obstacles, whose reward is
\* the tracking term plus the heading term.
C13_HeadingTerm ==
    (fn = "reward_fn_xy" /\ args.obstacles = None) =>
        \A k \in 1..Len(args.state) :
            out[k] =
                xy_cost_term(args.state, args.reference)[k]
                    * config_xy_cost[args.stage_idx + 1]
                - ( Abs(Sin(args.reference[k + 1][4]) - Sin(args.state[k].yaw))
                    + Abs(Cos(args.reference[k + 1][4]) - Cos(args.state[k].yaw)) )
                    * config_yaw_cost[args.stage_idx + 1]

\* what does hold: the cosine is taken of the s_abs field, read as radians
C13_HeadingTermAsCoded ==
    (fn = "reward_fn_xy" /\ args.obstacles = None) =>
        \A k \in 1..Len(args.state) :
            out[k] =
                xy_cost_term(args.state, args.reference)[k]
                    * config_xy_cost[args.stage_idx + 1]
                - ( Abs(Sin(args.reference[k + 1][4]) - Sin(args.state[k].yaw))
                    + Abs(Cos(4 * args.reference[k + 1][5]) - Cos(args.state[k].yaw)) )
                    * config_yaw_cost[args.stage_idx + 1]

\* the least squared distance, in 0.01 m^2, from a position to an obstacle set
MinSqDist(pos, obstacles) ==
    CHOOSE d \in {(pos.x - o[1]) * (pos.x - o[1]) + (pos.y - o[2]) * (pos.y - o[2]) :
                    o \in Range(obstacles)} :
        \A o \in Range(obstacles) :
            d <= (pos.x - o[1]) * (pos.x - o[1]) + (pos.y - o[2]) * (pos.y - o[2])

\* C14: with obstacles supplied, the obstacle term at each predicted step is
\* -1 / (d2 + eps) times the stage's obstacle weight, d2 the least squared
\* distance from the predicted position to the obstacles (eps = 1e-4; with d2
\* in 0.01 m^2 and rewards in 1/1000 that is -10^7 / (100 d2 + 1)).
C14_ObstacleTerm ==
    (fn = "reward_fn_xy" /\ args.obstacles # None) =>
        \A k \in 1..Len(args.state) :
            out[k] - reward_fn_xy(args.state, args.reference, args.stage_idx, None)[k]
                = -(10000000 \div (100 * MinSqDist(args.state[k], Val(args.obstacles)) + 1))
                    * config_obs_cost[args.stage_idx + 1]

\* what does hold: the denominator is the square of d2, plus eps
C14_ObstacleTermAsCoded ==
    (fn = "reward_fn_xy" /\ args.obstacles # None) =>
        \A k \in 1..Len(args.state) :
            out[k] - reward_fn_xy(args.state, args.reference, args.stage_idx, None)[k]
                = -(10000000 \div (MinSqDist(args.state[k], Val(args.obstacles))
                                      * MinSqDist(args.state[k], Val(args.obstacles)) + 1))
                    * config_obs_cost[args.stage_idx + 1]

------------------------------------------------------------------------------
\* The dynamics update built by InferEnv.__init__ (infer_env.py:35-69).
\* Here a state is <<x, y, steer, v, yaw, yaw_rate, slip>> and a control is
\* <<steer_rate, accel>>, all in 1/1000 (mm, mrad, mm/s, ...); times are
\* rationals in seconds.

\* Ddt = 0.05
Ddt == <<1, 20>>

\* the wheelbase, 1/3 m, and the friction coefficient of the configuration
config_lwb == <<1, 3>>
config_friction == <<1, 1>>

\* an angle in mrad as an argument of Sin and Cos
AngU(m) == FxDiv(m, 25)

vadd(a, b) == [i \in DOMAIN a |-> a[i] + b[i]]
vsub(a, b) == [i \in DOMAIN a |-> a[i] - b[i]]
vscale(a, q) == [i \in DOMAIN a |-> MulQ(a[i], q)]

\* v * tan(steer) / lwb
yaw_rate_ks(x) ==
    IF Cos(AngU(x[3])) = 0 THEN 0
    ELSE FxDiv(x[4] * Sin(AngU(x[3])) * config_lwb[2], Cos(AngU(x[3])) * config_lwb[1])

\* dynamics_models_jax.vehicle_dynamics_ks: the kinematic single-track model
vehicle_dynamics_ks(x, u) ==
    << FxDiv(x[4] * Cos(AngU(x[5])), 1000),
       FxDiv(x[4] * Sin(AngU(x[5])), 1000),
       u[1],
       u[2],
       yaw_rate_ks(x) >>

\* dynamics_models_jax.vehicle_dynamics_st: the single-track model with yaw
\* rate and slip; the yaw rate is driven toward the kinematic one and the slip
\* decays, both at the rate the friction coefficient gives
vehicle_dynamics_st(x, u, friction) ==
    << FxDiv(x[4] * Cos(AngU(x[5] + x[7])), 1000),
       FxDiv(x[4] * Sin(AngU(x[5] + x[7])), 1000),
       u[1],
       u[2],
       x[6],
       MulQ(yaw_rate_ks(x) - x[6], friction),
       MulQ(-x[7], friction) >>

\* the vehicle_dynamics_fn and args each variant hands to RK4_fn, lines 51 and 64
vehicle_dynamics_fn(variant, x, u) ==
    IF variant = "dynamic_ST"
    THEN vehicle_dynamics_st(x, u, config_friction)
    ELSE vehicle_dynamics_ks(x, u)

\* RK4_fn(x0, u, Ddt, vehicle_dynamics_fn, args), lines 35-42
RK4_fn(x0, u, h, variant) ==
    LET k1 == vehicle_dynamics_fn(variant, x0, u)
        k2 == vehicle_dynamics_fn(variant, vadd(x0, vscale(k1, <<h[1], 2 * h[2]>>)), u)
        k3 == vehicle_dynamics_fn(variant, vadd(x0, vscale(k2, <<h[1], 2 * h[2]>>)), u)
        k4 == vehicle_dynamics_fn(variant, vadd(x0, vscale(k3, h)), u)
    IN  vadd(x0, vscale(vadd(vadd(k1, vscale(k2, <<2, 1>>)), vadd(vscale(k3, <<2, 1>>), k4)),
                        <<h[1], 6 * h[2]>>))

\* step_fn of either variant, lines 49-51 and 62-64
step_fn(variant, x0, u) == RK4_fn(x0, u, Ddt, variant)

\* jax.lax.fori_loop(lower, upper, step_fn, init_val)
RECURSIVE fori_loop(_, _, _, _, _)
fori_loop(lower, upper, variant, u, init_val) ==
    IF lower >= upper THEN init_val
    ELSE CHOOSE r \in {fori_loop(lower + 1, upper, variant, u, x1) :
                          x1 \in {step_fn(variant, init_val, u)}} : TRUE

\* int(self.DT / Ddt): the quotient, truncated
int_quot(DT, h) == (DT[1] * h[2]) \div (DT[2] * h[1])

\* x.at[:5].set(x_k), with the components past the fifth zeroed
at_set_zero_rest(x, x_k) == [i \in 1..7 |-> IF i <= 5 THEN x_k[i] ELSE 0]

\* x.at[:5].set(x_k)
at_set_first5(x, x_k) == [i \in 1..7 |-> IF i <= 5 THEN x_k[i] ELSE x[i]]

\* update_fn of either variant with the number of sub-steps given:
\* returns (x1, 0, x1 - x)
update_substeps(variant, n, x, u) ==
    CHOOSE r \in
        { <<x1, 0, vsub(x1, x)>> :
            x1 \in { IF variant = "dynamic_ST"
                     THEN fori_loop(0, n, variant, u, x)
                     ELSE at_set_first5(x, fori_loop(0, n, variant, u, SubSeq(x, 1, 5))) } }
        : TRUE

\* update_fn(x, u), lines 46-54 and 59-68
update_fn(variant, DT, x, u) == update_substeps(variant, int_quot(DT, Ddt), x, u)

\* Direct calls of update_fn: either variant, control periods of 0, 0.04,
\* 0.05, 0.1 and 0.12 s, states at the origin and controls of either sign.
ControlPeriods == {<<0, 1>>, <<4, 100>>, <<5, 100>>, <<1, 10>>, <<12, 100>>}

DynStates ==
    {<<0, 0, steer, v, yaw, yaw_rate, slip>> :
        steer \in {0, 100}, v \in {-1000, 0, 1000}, yaw \in {0, 500},
        yaw_rate \in {0, 200}, slip \in {0, 50}}

DynControls == {<<0, 0>>, <<500, 1000>>, <<-500, -1000>>}

InitDynamics ==
    /\ NodeInit
    /\ fn = ""
    /\ out = <<>>
    /\ \E variant \in {"dynamic_ST", "kinematic_ST"}, DT \in ControlPeriods,
          x \in DynStates, u \in DynControls :
            args = [variant |-> variant, DT |-> DT, x |-> x, u |-> u]

CallUpdateFn ==
    /\ fn = ""
    /\ fn' = "update_fn"
    /\ out' = update_fn(args.variant, args.DT, args.x, args.u)
    /\ UNCHANGED <<args, nodeVars>>

NextDynamics == CallUpdateFn

SpecDynamics == InitDynamics /\ [][NextDynamics]_vars

\* DT / 0.05 rounded to the nearest whole number
RoundedSubSteps(DT) == FxDiv(DT[1] * Ddt[2], DT[2] * Ddt[1])

\* C15: for every control period DT both variants run round(DT / 0.05) RK4
\* sub-steps of 0.05 s with the control held; a DT between 0.025 s and 0.05 s
\* runs one sub-step, and a DT of 0 runs none and returns the state unchanged
\* with a zero delta.
C15_RoundedSubSteps ==
    (fn = "update_fn") =>
        /\ out = update_substeps(args.variant, RoundedSubSteps(args.DT), args.x, args.u)
        /\ (args.DT = <<4, 100>>) =>
                out = update_substeps(args.variant, 1, args.x, args.u)
        /\ (args.DT[1] = 0) =>
                /\ out[1] = args.x
                /\ \A i \in 1..7 : out[3][i] = 0

\* what does hold: at DT = 0 the state is returned unchanged with a zero
\* delta, and a DT that is a multiple of 0.05 s runs DT / 0.05 sub-steps
C15_WholeSubSteps ==
    (fn = "update_fn") =>
        /\ (args.DT[1] = 0) =>
                /\ out[1] = args.x
                /\ \A i \in 1..7 : out[3][i] = 0
        /\ ((args.DT[1] * Ddt[2]) % (args.DT[2] * Ddt[1]) = 0) =>
                out = update_substeps(args.variant, RoundedSubSteps(args.DT), args.x, args.u)

------------------------------------------------------------------------------
\* Direct calls of uniform_resample: point clouds of 0..MaxPoints points,
\* every max_obstacles up to MaxObstacles, every draw of np.random.choice.

MaxPoints == 4
MaxObstacles == 3

CloudPoints == {<<1, 0>>, <<2, 1>>, <<3, -1>>}

Clouds == UNION {[1..M -> CloudPoints] : M \in 0..MaxPoints}

InitUniform ==
    /\ NodeInit
    /\ fn = ""
    /\ out = <<>>
    /\ \E obstacles \in Clouds, max_obstacles \in 1..MaxObstacles :
       \E extra_idxs \in [1..Max(max_obstacles - Len(obstacles), 0)
                            -> 0..Max(Len(obstacles) - 1, 0)] :
            args = [obstacles |-> obstacles, max_obstacles |-> max_obstacles,
                    extra_idxs |-> extra_idxs]

CallUniformResample ==
    /\ fn = ""
    /\ fn' = "uniform_resample"
    /\ out' = uniform_resample(args.obstacles, args.max_obstacles, args.extra_idxs)
    /\ UNCHANGED <<args, nodeVars>>

NextUniform == CallUniformResample

SpecUniform == InitUniform /\ [][NextUniform]_vars

\* out is the input read at non-decreasing indices from the first to the last
DownSampled(input, result) ==
    \E idxs \in [1..Len(result) -> 1..Len(input)] :
        /\ idxs[1] = 1
        /\ idxs[Len(result)] = Len(input)
        /\ \A k \in 1..(Len(result) - 1) : idxs[k] <= idxs[k + 1]
        /\ \A k \in 1..Len(result) : result[k] = input[idxs[k]]

\* C17: for every input count M >= 0 uniform_resample returns exactly
\* max_obstacles points; for M >= max_obstacles they are input points at
\* non-decreasing indices from the first to the last; for 0 < M < max_obstacles
\* they are the M input points followed by points each equal to an input
\* point; and no returned point is ever a point that was not in the input.
C17_UniformResample ==
    (fn = "uniform_resample") =>
        /\ Len(out) = args.max_obstacles
        /\ Len(args.obstacles) >= args.max_obstacles => DownSampled(args.obstacles, out)
        /\ (0 < Len(args.obstacles) /\ Len(args.obstacles) < args.max_obstacles) =>
            /\ SubSeq(out, 1, Len(args.obstacles)) = args.obstacles
            /\ \A k \in (Len(args.obstacles) + 1)..Len(out) : out[k] \in Range(args.obstacles)
        /\ \A k \in 1..Len(out) : out[k] \in Range(args.obstacles)

\* what does hold: the count always, and the rest for a non-empty input and
\* max_obstacles of 2 or more
C17_NonEmptyInput ==
    (fn = "uniform_resample") =>
        /\ Len(out) = args.max_obstacles
        /\ (Len(args.obstacles) > 0 /\ args.max_obstacles >= 2) =>
            /\ Len(args.obstacles) >= args.max_obstacles =>
                    DownSampled(args.obstacles, out)
            /\ Len(args.obstacles) < args.max_obstacles =>
                    SubSeq(out, 1, Len(args.obstacles)) = args.obstacles
            /\ \A k \in 1..Len(out) : out[k] \in Range(args.obstacles)

------------------------------------------------------------------------------
\* When the node publishes (Spec)

\* C18: the pose callback in which the goal test passes while the planner is
\* Active publishes one drive command, steering 0 and speed 0, and leaves the
\* planner Idle; every later pose callback, until a trajectory is accepted,
\* publishes nothing; and nothing is published before both an occupancy grid
\* and a trajectory have been received.  Only pose callbacks publish.
C18_PublishOnlyWhenActive ==
    [][ /\ (last.cb = "spin" /\ last'.cb = "pose") =>
            /\ last'.branch = "done" =>
                /\ mppi # None
                /\ drive' = Some([steering_angle |-> Fin(0), speed |-> Fin(0)])
                /\ mppi' = None
                /\ goal_passed'
            /\ goal_passed => drive' = None
            /\ (mppi = None \/ ~map_received \/ n_accepted = 0) => drive' = None
            /\ drive' # None => (map_received /\ mppi # None /\ n_accepted > 0)
        /\ (last.cb = "spin" /\ last'.cb # "pose") => drive' = None
      ]_vars

\* a pose callback after the goal was reached, with the map and a finished
\* trajectory: nothing is published
C18_Witness ==
    /\ last.cb = "pose"
    /\ last.branch = "no_traj"
    /\ goal_passed
    /\ map_received
    /\ n_accepted > 0
    /\ drive = None

\* C19: while the optimizer exists (mppi is not None) the track, the
\* environment, the end pose, the last command and the stage counter are all
\* set and the node is not waiting for a trajectory; and once a grid has been
\* received the occupied-cell positions are set.
C19_ActiveFieldsSet ==
    /\ mppi # None =>
        /\ track # None
        /\ infer_env # None
        /\ end_pose # None
        /\ control # None
        /\ stage_cnt # None
        /\ ~waiting_for_traj
    /\ map_received => occup_pos # None

\* the optimizer exists again after a goal was reached and a second
\* trajectory was taken, with a grid received
C19_Witness ==
    /\ last.cb = "traj" /\ last.branch = "accepted"
    /\ n_accepted = 2
    /\ mppi # None
    /\ map_received
    /\ ~waiting_for_traj

\* C20: the stage index given to every optimizer update is the number of
\* trajectories accepted so far minus one: stage_cnt is unset before the first
\* accepted trajectory, becomes 0 on it, increases by exactly one on each later
\* accepted trajectory, and pose callbacks, grid callbacks and trajectories
\* that are not accepted leave it as it is.
C20_StageIsAcceptedMinusOne ==
    /\ [](/\ stage_cnt = None <=> n_accepted = 0
          /\ stage_cnt # None => Val(stage_cnt) = n_accepted - 1
          /\ upd # None => Val(upd).stage = n_accepted - 1)
    /\ [][ /\ (last'.cb = "traj" /\ last'.branch = "accepted") =>
               /\ stage_cnt = None => stage_cnt' = Some(0)
               /\ stage_cnt # None => stage_cnt' = Some(Val(stage_cnt) + 1)
               /\ upd' # None /\ Val(upd').stage = Val(stage_cnt')
           /\ (last'.cb = "pose" /\ upd' # None) => Val(upd').stage = Val(stage_cnt)
           /\ ~(last'.cb = "traj" /\ last'.branch = "accepted") => stage_cnt' = stage_cnt
         ]_vars

\* a pose callback after the second accepted trajectory updates the optimizer
\* with stage 1
C20_Witness ==
    /\ last.cb = "pose"
    /\ n_accepted = 2
    /\ upd # None
    /\ Val(upd).stage = 1
    /\ stage_cnt = Some(1)

\* the steering bound of the mode a pose callback drove in
SteerBoundOf(branch) == IF branch = "forward" THEN max_steering_angle_forward ELSE max_steering_angle_reverse

\* C21: the steering value the node keeps between cycles, which is the steer
\* component of the next state vector, equals the steering angle it last
\* published, and so lies within the steering bound of the driving mode.
C21_KeptSteerIsPublished ==
    (last.cb = "pose" /\ last.branch \in {"forward", "reverse"} /\ drive # None) =>
        /\ Val(control)[1] = Val(drive).steering_angle
        /\ Val(control)[1][1] = "fin"
        /\ Abs(Val(control)[1][2]) <= SteerBoundOf(last.branch)

\* what the code keeps: the published angle is the kept value clipped, and the
\* kept value itself is the unclipped sum
C21_PublishedIsClippedKept ==
    (last.cb = "pose" /\ last.branch \in {"forward", "reverse"} /\ drive # None) =>
        Val(drive).steering_angle =
            F_clip(Val(control)[1], -SteerBoundOf(last.branch), SteerBoundOf(last.branch))

====
